---- MODULE Spec2Model ----
(***************************************************************************)
(* A model of pycontroller's ControllerManager (internal/manager.py): the  *)
(* declaration of a controller class (stage wrapping, signature merging,   *)
(* generation of call_fn, assignment as __call__) and the execution of the *)
(* generated call_fn on a partition of elements.                           *)
(*                                                                         *)
(* A stage function is described by what SignatureHelper reports of it:    *)
(*   n_pos              len(signature.non_class_positional_args)           *)
(*   keyword_arguments  sequence of <<name, default>>                      *)
(*   has_arg_unpack     the function declares *args                        *)
(*   has_kwarg_unpack   the function declares **kwargs                     *)
(* The generated source text is modelled by its structure: the merged      *)
(* argument list and, per stage, the call expression placed in the body.   *)
(*                                                                         *)
(* The ranking attributes sort, sort_reverse and sort_key are read by the  *)
(* Controller class, which validates them and hands the manager the        *)
(* comparator they stand for; that part follows the specification's        *)
(* section 4.5.  MethodInspector (pycontroller2/internal) has a section   *)
(* and a specification of its own.                                         *)
(***************************************************************************)
EXTENDS Integers, Sequences, FiniteSets, TLC

VARIABLES
    action, filter, preference,   \* ControllerManager.action/.filter/.preference
    sort, sort_reverse, sort_key, \* the class's ranking attributes (sort_key: it declares one)
    sort_key_fn,                  \* the sort_key function, as a stage function is described
    orderable,                    \* the elements handed to the pipeline support a < b
    fAccept, prefKey,             \* behaviour of the user's filter / preference
    faulty,                       \* per stage function, the elements it raises on
    inspector,                    \* a MethodInspector and what has been read from it
    peer,                         \* the invocation of call_fn on the thread that is not running
    decl,                         \* progress of the class declaration
    call_fn,                      \* the function generate_call_method compiled
    assigned,                     \* controller.__call__ has been set to call_fn
    pc,                           \* position inside one invocation of call_fn
    partition,                    \* the elements argument of the invocation
    env,                          \* local names of call_fn: arg_i, keywords, args, kwargs
    it,                           \* number of elements the source iterator has consumed
    buf,                          \* elements collected for / produced by nsmallest
    pending,                      \* element bound to `chosen`, not yet mapped
    out,                          \* elements of the result produced so far
    returned,                     \* call_fn has returned to its caller
    exc,                          \* exception raised by the invocation ("" if none)
    log                           \* stage-function calls of the invocation, in order

vars == <<action, filter, preference, sort, sort_reverse, sort_key,
          sort_key_fn, orderable, fAccept, prefKey, faulty, inspector, peer,
          decl, call_fn, assigned,
          pc, partition, env, it, buf, pending, out, returned, exc, log>>

declVars == <<action, filter, preference, sort, sort_reverse, sort_key,
              sort_key_fn, orderable, fAccept, prefKey, faulty, inspector>>

runVars == <<pc, partition, env, it, buf, pending, out, returned, exc, log>>

\* what the steps of the running invocation leave alone
fixedVars == <<declVars, peer, decl, call_fn, assigned>>

----------------------------------------------------------------------------
(* Bounds *)

MaxLen == 3      \* longest partition handed to the pipeline
MaxExtra == 1    \* most positional parameters a stage declares beyond its reserved ones

Elems == 1..3            \* candidate elements
ArgVals == {0, 1}        \* values of an extra positional argument

Max(a, b) == IF a >= b THEN a ELSE b
Min(a, b) == IF a <= b THEN a ELSE b

RECURSIVE SeqsUpTo(_, _)
SeqsUpTo(S, n) ==
    IF n = 0 THEN {<< >>}
    ELSE LET shorter == SeqsUpTo(S, n - 1)
         IN  shorter \cup {Append(s, x) : s \in {t \in shorter : Len(t) = n - 1}, x \in S}

----------------------------------------------------------------------------
(* Stage wrappers *)

\* self.action / self.filter / self.preference is None
NoStage ==
    [present |-> FALSE, n_pos |-> 0, keyword_arguments |-> << >>,
     has_arg_unpack |-> FALSE, has_kwarg_unpack |-> FALSE]

\* ControlledMethod(fn): the function and what SignatureHelper reports of it
ControlledMethod(n, kws, va, vk) ==
    [present |-> TRUE, n_pos |-> n, keyword_arguments |-> kws,
     has_arg_unpack |-> va, has_kwarg_unpack |-> vk]

has_action == action.present
has_filter == filter.present
has_preference == preference.present

Action_get_min_required_call_args == 1       \* chosen
Filter_get_min_required_call_args == 1       \* chosen
Preference_get_min_required_call_args == 2   \* a, b

\* the names arg_0 .. arg_{num_args-1}, written as their indexes
generate_positional_args(num_args) ==
    IF num_args > 0 THEN [i \in 1..num_args |-> i - 1] ELSE << >>

KeywordNames(kws) == [i \in 1..Len(kws) |-> kws[i][1]]

\* the chosen element itself stands where the action call would
NoExpr ==
    [present |-> FALSE, direct |-> FALSE, args |-> << >>, star |-> FALSE,
     keywords |-> << >>, dstar |-> FALSE]

\* _action(chosen, arg_0.., *args, kw=kw.., **kwargs)
Action_generate_expression(a) ==
    [present  |-> TRUE,
     direct   |-> FALSE,
     args     |-> generate_positional_args(a.n_pos - Action_get_min_required_call_args),
     star     |-> a.has_arg_unpack,
     keywords |-> KeywordNames(a.keyword_arguments),
     dstar    |-> a.has_kwarg_unpack]

\* (chosen for chosen in partition if _filter(chosen, arg_0.., *args, kw=kw.., **kwargs))
\* or, when the call would pass nothing but chosen, filter(self.filter, partition)
Filter_generate_expression(f) ==
    LET args == generate_positional_args(f.n_pos - Filter_get_min_required_call_args)
        n_args == 1 + Len(args) + (IF f.has_arg_unpack THEN 1 ELSE 0)
        n_kwargs == Len(f.keyword_arguments) + (IF f.has_kwarg_unpack THEN 1 ELSE 0)
        generator == n_args + n_kwargs > Filter_get_min_required_call_args
    IN  [present  |-> TRUE,
         direct   |-> ~generator,
         args     |-> IF generator THEN args ELSE << >>,
         star     |-> generator /\ f.has_arg_unpack,
         keywords |-> IF generator THEN KeywordNames(f.keyword_arguments) ELSE << >>,
         dstar    |-> generator /\ f.has_kwarg_unpack]

\* nsmallest(len(partition), <elements>, key=cmp_to_key(self.preference)):
\* cmp_to_key calls the bound method with the two compared elements only
Preference_generate_expression(p) ==
    [present |-> TRUE, direct |-> TRUE, args |-> << >>, star |-> FALSE,
     keywords |-> << >>, dstar |-> FALSE]

----------------------------------------------------------------------------
(* The merged signature of call_fn *)

\* variant: the filter's extra parameters are not counted
pos_args_to_generate_no_filter(a, f, p) ==
    LET p0 == 0
        p1 == IF a.present
              THEN Max(a.n_pos - Action_get_min_required_call_args, p0) ELSE p0
        p2 == IF p.present
              THEN Max(p.n_pos - Preference_get_min_required_call_args, p1) ELSE p1
    IN  p2

\* variant: the preference's extra parameters are not counted
pos_args_to_generate_no_preference(a, f, p) ==
    LET p0 == 0
        p1 == IF a.present
              THEN Max(a.n_pos - Action_get_min_required_call_args, p0) ELSE p0
        p3 == IF f.present
              THEN Max(f.n_pos - Filter_get_min_required_call_args, p1) ELSE p1
    IN  p3

\* number of arg_i parameters of call_fn
pos_args_to_generate(a, f, p) ==
    LET p0 == 0
        p1 == IF a.present
              THEN Max(a.n_pos - Action_get_min_required_call_args, p0) ELSE p0
        p2 == IF p.present
              THEN Max(p.n_pos - Preference_get_min_required_call_args, p1) ELSE p1
        p3 == IF f.present
              THEN Max(f.n_pos - Filter_get_min_required_call_args, p2) ELSE p2
    IN  p3

\* the keyword parameters of call_fn with their defaults: action's, filter's, preference's
signature_keywords(a, f, p) ==
    (IF a.present THEN a.keyword_arguments ELSE << >>)
      \o (IF f.present THEN f.keyword_arguments ELSE << >>)
      \o (IF p.present THEN p.keyword_arguments ELSE << >>)

has_var_arg(a, f, p) ==
    LET v1 == IF a.present THEN a.has_arg_unpack \/ FALSE ELSE FALSE
        v2 == IF f.present THEN f.has_arg_unpack \/ v1 ELSE v1
        v3 == IF p.present THEN p.has_arg_unpack \/ v2 ELSE v2
    IN  v3

has_kwarg(a, f, p) ==
    LET v1 == IF a.present THEN a.has_kwarg_unpack \/ FALSE ELSE FALSE
        v2 == IF f.present THEN f.has_kwarg_unpack \/ v1 ELSE v1
        v3 == IF p.present THEN p.has_kwarg_unpack \/ v2 ELSE v2
    IN  v3

\* def call_fn(self, partition, arg_0.., kw=default.., *args, **kwargs)
get_call_signature_args(a, f, p) ==
    [n_args   |-> Len(generate_positional_args(pos_args_to_generate(a, f, p))),
     keywords |-> signature_keywords(a, f, p),
     vararg   |-> has_var_arg(a, f, p),
     kwarg    |-> has_kwarg(a, f, p)]

\* compile() rejects a def that names a parameter twice (SyntaxError)
Compiles(args) ==
    \A i, j \in 1..Len(args.keywords) :
        args.keywords[i][1] = args.keywords[j][1] => i = j

NoSignature == [n_args |-> 0, keywords |-> << >>, vararg |-> FALSE, kwarg |-> FALSE]

NoFn ==
    [present |-> FALSE, args |-> NoSignature, action |-> NoExpr,
     filter |-> NoExpr, preference |-> NoExpr]

\* the function object left in _locals after compiling the generated text
generate_call_method(a, f, p) ==
    [present    |-> TRUE,
     args       |-> get_call_signature_args(a, f, p),
     action     |-> IF a.present THEN Action_generate_expression(a) ELSE NoExpr,
     filter     |-> IF f.present THEN Filter_generate_expression(f) ELSE NoExpr,
     preference |-> IF p.present THEN Preference_generate_expression(p) ELSE NoExpr]

----------------------------------------------------------------------------
(* Declaration of the controller class *)

NoEnv == [arg |-> << >>, kw |-> << >>, args |-> << >>, kwargs |-> {}]

RunIdle ==
    /\ pc = "idle"
    /\ partition = << >>
    /\ env = NoEnv
    /\ it = 0
    /\ buf = << >>
    /\ pending = << >>
    /\ out = << >>
    /\ returned = FALSE
    /\ exc = ""
    /\ log = << >>

\* variant: sort and sort_key are not checked against each other
RankingConflict_no_key ==
    \/ sort /\ has_preference
    \/ sort_reverse /\ ~(sort \/ sort_key \/ has_preference)

\* variant: sort_reverse is accepted on its own
RankingConflict_reverse_alone ==
    \/ sort /\ has_preference
    \/ sort /\ sort_key

\* the checks made on the ranking attributes before the manager is built
RankingConflict ==
    \/ sort /\ has_preference
    \/ sort /\ sort_key
    \/ sort_reverse /\ ~(sort \/ sort_key \/ has_preference)

\* sort_key declares no parameter for the candidate
MissingCandidate == sort_key /\ sort_key_fn.n_pos = 0

\* the checks are made in the order R1, R2, R3, R4
ValidateRanking ==
    /\ decl = "declaring"
    /\ decl' = IF RankingConflict THEN "ValueError"
               ELSE IF MissingCandidate THEN "AttributeError"
               ELSE "validated"
    /\ UNCHANGED <<declVars, peer, call_fn, assigned, runVars>>

\* the comparator a sort_key stands for takes the compared pair, then what
\* sort_key takes after its candidate
KeyedComparator ==
    ControlledMethod(sort_key_fn.n_pos - 1 + Preference_get_min_required_call_args,
                     sort_key_fn.keyword_arguments,
                     sort_key_fn.has_arg_unpack, sort_key_fn.has_kwarg_unpack)

\* the preference stage the manager is built with: the declared comparator,
\* else the one sort_key stands for, else the natural order of sort
ResolvedPreference ==
    IF has_preference THEN preference
    ELSE IF sort_key THEN KeyedComparator
    ELSE IF sort THEN ControlledMethod(Preference_get_min_required_call_args,
                                       << >>, FALSE, FALSE)
    ELSE NoStage

\* variant: __call__ is assigned before the text is compiled
ControllerManager_init_assign_first ==
    /\ decl = "validated"
    /\ LET signature_args == get_call_signature_args(action, filter, ResolvedPreference)
       IN  /\ call_fn' = generate_call_method(action, filter, ResolvedPreference)
           /\ assigned' = TRUE
           /\ decl' = IF Compiles(signature_args) THEN "built" ELSE "SyntaxError"
    /\ UNCHANGED <<declVars, peer, runVars>>

\* ControllerManager.__init__: wrap the stages, validate, generate, assign
ControllerManager_init ==
    /\ decl = "validated"
    /\ LET signature_args == get_call_signature_args(action, filter, ResolvedPreference)
       IN  IF Compiles(signature_args)
           THEN /\ call_fn' = generate_call_method(action, filter, ResolvedPreference)
                /\ assigned' = TRUE
                /\ decl' = "built"
           ELSE /\ call_fn' = call_fn
                /\ assigned' = assigned
                /\ decl' = "SyntaxError"
    /\ UNCHANGED <<declVars, peer, runVars>>

\* no MethodInspector has been made
NoInspection == [pc |-> "none"]

\* the other thread is in no invocation
NoFrame ==
    [pc |-> "idle", partition |-> << >>, env |-> NoEnv, it |-> 0, buf |-> << >>,
     pending |-> << >>, out |-> << >>, returned |-> FALSE, exc |-> "", log |-> << >>]

DeclStart ==
    /\ decl = "declaring"
    /\ call_fn = NoFn
    /\ assigned = FALSE
    /\ RunIdle

----------------------------------------------------------------------------
(* Calling call_fn: binding the caller's arguments to its parameters *)

\* P: the positional arguments after the partition; K: the keyword arguments,
\* a set of <<name, value>> with distinct names.  arg_i, then the keyword
\* parameters, take the positional arguments in order; what is left goes to
\* *args; a keyword that names no parameter goes to **kwargs.
Bind(sig, P, K) ==
    LET n == sig.n_args
        nk == Len(sig.keywords)
        rest == IF Len(P) > n THEN SubSeq(P, n + 1, Len(P)) ELSE << >>
        nfill == Min(Len(rest), nk)
        extra == IF Len(rest) > nk THEN SubSeq(rest, nk + 1, Len(rest)) ELSE << >>
        slots == {sig.keywords[i][1] : i \in 1..nk}
        named == {kv[1] : kv \in K}
        twice == \E i \in 1..nfill : sig.keywords[i][1] \in named
        unknown == {kv \in K : kv[1] \notin slots}
        value(i) ==
            IF i <= nfill THEN rest[i]
            ELSE IF sig.keywords[i][1] \in named
                 THEN (CHOOSE kv \in K : kv[1] = sig.keywords[i][1])[2]
                 ELSE sig.keywords[i][2]
        ok == /\ Len(P) >= n
              /\ extra = << >> \/ sig.vararg
              /\ ~twice
              /\ unknown = {} \/ sig.kwarg
    IN  [ok  |-> ok,
         env |-> IF ok
                 THEN [arg    |-> SubSeq(P, 1, n),
                       kw     |-> {<<sig.keywords[i][1], value(i)>> : i \in 1..nk},
                       args   |-> extra,
                       kwargs |-> unknown]
                 ELSE NoEnv]

\* the value of the local name `name` of call_fn
Local(name, e) == (CHOOSE kv \in e.kw : kv[1] = name)[2]

\* evaluation of a generated call expression: fn(lead.., arg_i.., *args, kw=kw.., **kwargs)
StageCall(fn, expr, lead, e) ==
    [fn  |-> fn,
     pos |-> lead
               \o [i \in 1..Len(expr.args) |-> e.arg[expr.args[i] + 1]]
               \o (IF expr.star THEN e.args ELSE << >>),
     kw  |-> {<<expr.keywords[i], Local(expr.keywords[i], e)>> : i \in 1..Len(expr.keywords)}
               \cup (IF expr.dstar THEN e.kwargs ELSE {})]

\* the stage function accepts the call: as many positional arguments as it has
\* positional parameters (more only with *args), keywords it declares (others
\* only with **kwargs)
Accepts(stage, call) ==
    /\ \/ Len(call.pos) = stage.n_pos
       \/ Len(call.pos) > stage.n_pos /\ stage.has_arg_unpack
    /\ \/ stage.has_kwarg_unpack
       \/ \A kv \in call.kw :
            \E i \in 1..Len(stage.keyword_arguments) :
                stage.keyword_arguments[i][1] = kv[1]

----------------------------------------------------------------------------
(* The user's stage functions *)

\* filter(self, chosen, ...): keeps the candidate, shifted by the first extra
\* argument when one is passed, if it lies in fAccept
FilterFn(call) ==
    (call.pos[1] + (IF Len(call.pos) > 1 THEN call.pos[2] ELSE 0)) \in fAccept

\* preference(self, a, b): negative, zero or positive
PreferenceFn(a, b) == prefKey[a] - prefKey[b]

\* action(self, chosen, ...)
ActionFn(call) == call.pos[1] + 10

\* no stage function raises
NoFault == [filter |-> {}, preference |-> {}, action |-> {}]

\* the stage function raises when the candidate (one of the compared pair)
\* is an element it is faulty on
Raises(call) ==
    \/ call.pos[1] \in faulty[call.fn]
    \/ call.fn = "preference" /\ call.pos[2] \in faulty[call.fn]

\* variant: sort_reverse is not applied
Comparator_forward(a, b) ==
    IF has_preference THEN PreferenceFn(a, b)
    ELSE IF sort_key THEN prefKey[a] - prefKey[b]
    ELSE a - b

\* the comparator in the manager's preference slot: the declared preference,
\* else the order of the sort_key values (prefKey), else the natural order
\* of the elements; sort_reverse negates its sign
Comparator(a, b) ==
    LET forward == IF has_preference THEN PreferenceFn(a, b)
                   ELSE IF sort_key THEN prefKey[a] - prefKey[b]
                   ELSE a - b
    IN  IF sort_reverse THEN 0 - forward ELSE forward

\* variant: every element type is taken to be ordered
Unorderable_never == FALSE

\* the natural order is asked of elements that have none: a < b raises
Unorderable == ~has_preference /\ ~sort_key /\ sort /\ ~orderable

----------------------------------------------------------------------------
(* nsmallest(n, iterable, key=cmp_to_key(self.preference)) *)

\* sorted(): a stable comparison sort, written as insertion from the right.
\* The place of x in the sorted list s: x moves left past every element it is
\* less than (K.__lt__: mycmp(x, y) < 0) and stops at the first it is not
\* less than.  CPython compares other pairs on its way (binary insertion; on
\* an iterator, decorated tuples in a heap), always through preference(a, b),
\* and for a consistent comparator arrives at the same list.
RECURSIVE InsertAt(_, _, _)
InsertAt(x, s, j) ==
    IF j = 0 THEN 0
    ELSE IF Comparator(x, s[j]) < 0 THEN InsertAt(x, s, j - 1) ELSE j

Insert(x, s) ==
    LET j == InsertAt(x, s, Len(s))
    IN  SubSeq(s, 1, j) \o <<x>> \o SubSeq(s, j + 1, Len(s))

\* the pairs handed to the comparator while x is placed in s
Compared(x, s) ==
    LET j == InsertAt(x, s, Len(s))
        c == Len(s) - j + (IF j > 0 THEN 1 ELSE 0)
    IN  [i \in 1..c |-> [fn |-> "preference", pos |-> <<x, s[Len(s) - i + 1]>>, kw |-> {}]]

RECURSIVE sorted(_, _)
sorted(s, n) ==
    IF n = 0 THEN [list |-> << >>, calls |-> << >>]
    ELSE LET prev == sorted(s, n - 1)
         IN  [list  |-> Insert(s[n], prev.list),
              calls |-> prev.calls \o Compared(s[n], prev.list)]

\* variant: a top-K selection that leaves the last element out
nsmallest_short(n, elements) ==
    LET r == sorted(elements, Len(elements))
    IN  [list |-> SubSeq(r.list, 1, Min(n - 1, Len(r.list))), calls |-> r.calls]

\* documented as sorted(iterable, key=key)[:n]
nsmallest(n, elements) ==
    LET r == sorted(elements, Len(elements))
    IN  [list |-> SubSeq(r.list, 1, Min(n, Len(r.list))), calls |-> r.calls]

----------------------------------------------------------------------------
(* One invocation of call_fn *)

\* variant: the filter expression replaces, instead of feeding, the ranking
BodyStart_filter_last(fn) ==
    IF fn.filter.present
    THEN IF fn.action.present THEN "comp" ELSE "lazy"
    ELSE IF fn.preference.present THEN "rank"
    ELSE IF fn.action.present THEN "comp"
    ELSE "done"

\* variant: without an action the partition itself is returned
BodyStart_partition(fn) ==
    IF fn.preference.present
    THEN IF fn.filter.present THEN "drain" ELSE "rank"
    ELSE IF fn.action.present THEN "comp"
    ELSE "done"

\* where the body of call_fn starts, by the expressions it was generated with
BodyStart(fn) ==
    IF fn.preference.present
    THEN IF fn.filter.present THEN "drain" ELSE "rank"
    ELSE IF fn.action.present THEN "comp"
    ELSE IF fn.filter.present THEN "lazy"
    ELSE "done"

Invoke(parts, Ps, Ks) ==
    /\ decl = "built"
    /\ assigned
    /\ pc = "idle"
    /\ \E elements \in parts, P \in Ps, K \in Ks :
        LET b == Bind(call_fn.args, P, K)
            start == BodyStart(call_fn)
        IN  /\ partition' = elements
            /\ env' = b.env
            /\ IF ~b.ok
               THEN /\ pc' = "raised"
                    /\ exc' = "TypeError"
                    /\ UNCHANGED <<buf, out, returned>>
               ELSE /\ pc' = start
                    /\ exc' = exc
                    /\ buf' = IF start = "rank" THEN elements ELSE buf
                    /\ out' = IF start = "done" THEN elements ELSE out
                    /\ returned' = (start \in {"lazy", "done"})
    /\ UNCHANGED <<fixedVars, it, pending, log>>

\* the filter call made for one element of the partition
FilterCall(x) ==
    IF call_fn.filter.direct
    THEN [fn |-> "filter", pos |-> <<x>>, kw |-> {}]
    ELSE StageCall("filter", call_fn.filter, <<x>>, env)

\* variant: the generator expression has no `if` clause
Keeps_all(call) == call_fn.filter.direct => FilterFn(call)

\* the element is yielded when the call in the generator's `if` clause (or
\* made by the builtin filter()) returns true
Keeps(call) == FilterFn(call)

\* the filter iterator tests its next element: pulled by nsmallest ("drain"),
\* by the list comprehension ("comp") or by the caller of call_fn ("lazy")
FilterStep ==
    /\ pc \in {"drain", "comp", "lazy"}
    /\ call_fn.filter.present
    /\ pending = << >>
    /\ it < Len(partition)
    /\ LET x == partition[it + 1]
           call == FilterCall(x)
       IN  /\ log' = Append(log, call)
           /\ IF ~Accepts(filter, call) \/ Raises(call)
              THEN /\ pc' = "raised"
                   /\ exc' = IF ~Accepts(filter, call) THEN "TypeError" ELSE "StageError"
                   /\ UNCHANGED <<it, buf, pending, out>>
              ELSE /\ it' = it + 1
                   /\ UNCHANGED <<pc, exc>>
                   /\ LET keep == Keeps(call)
                      IN  /\ buf' = IF keep /\ pc = "drain" THEN Append(buf, x) ELSE buf
                          /\ pending' = IF keep /\ pc = "comp" THEN <<x>> ELSE pending
                          /\ out' = IF keep /\ pc = "lazy" THEN Append(out, x) ELSE out
    /\ UNCHANGED <<fixedVars, partition, env, returned>>

\* the comparison cannot be made (TypeError) or the comparator raises
Fails(call) == ~Accepts(ResolvedPreference, call) \/ Unorderable \/ Raises(call)

\* nsmallest sorts what it collected; the comparisons call self.preference(a, b),
\* and the first comparison that raises ends the invocation
Rank ==
    /\ pc = "rank"
    /\ LET r == nsmallest(Len(partition), buf)
           failed == {i \in 1..Len(r.calls) : Fails(r.calls[i])}
       IN  IF failed # {}
           THEN LET first == CHOOSE i \in failed : \A j \in failed : i <= j
                IN  /\ log' = log \o SubSeq(r.calls, 1, first)
                    /\ pc' = "raised"
                    /\ exc' = IF ~Accepts(ResolvedPreference, r.calls[first]) \/ Unorderable
                              THEN "TypeError" ELSE "StageError"
                    /\ UNCHANGED <<buf, it, out, returned>>
           ELSE /\ log' = log \o r.calls
                /\ exc' = exc
                /\ IF call_fn.action.present
                   THEN /\ pc' = "map"
                        /\ buf' = r.list
                        /\ it' = 0
                        /\ UNCHANGED <<out, returned>>
                   ELSE /\ pc' = "done"
                        /\ out' = r.list
                        /\ returned' = TRUE
                        /\ UNCHANGED <<buf, it>>
    /\ UNCHANGED <<fixedVars, partition, env, pending>>

\* the list comprehension maps its next element through self.action
ActionStep ==
    /\ pc \in {"comp", "map"}
    /\ call_fn.action.present
    /\ LET fromFilter == pc = "comp" /\ call_fn.filter.present
           source == IF pc = "map" THEN buf ELSE partition
       IN  /\ IF fromFilter THEN pending # << >> ELSE it < Len(source)
           /\ LET x == IF fromFilter THEN pending[1] ELSE source[it + 1]
                  call == StageCall("action", call_fn.action, <<x>>, env)
              IN  /\ log' = Append(log, call)
                  /\ IF ~Accepts(action, call) \/ Raises(call)
                     THEN /\ pc' = "raised"
                          /\ exc' = IF ~Accepts(action, call) THEN "TypeError" ELSE "StageError"
                          /\ UNCHANGED <<it, pending, out>>
                     ELSE /\ out' = Append(out, ActionFn(call))
                          /\ pending' = << >>
                          /\ it' = IF fromFilter THEN it ELSE it + 1
                          /\ UNCHANGED <<pc, exc>>
    /\ UNCHANGED <<fixedVars, partition, env, buf, returned>>

\* the iterated source is exhausted (StopIteration)
Exhaust ==
    /\ pc \in {"drain", "comp", "lazy", "map"}
    /\ pending = << >>
    /\ it = Len(IF pc = "map" THEN buf ELSE partition)
    /\ pc' = IF pc = "drain" THEN "rank" ELSE "done"
    /\ returned' = IF pc = "drain" THEN returned ELSE TRUE
    /\ UNCHANGED <<fixedVars, partition, env, it, buf,
                   pending, out, exc, log>>

----------------------------------------------------------------------------
(* Invocations on two threads: one runs, the other waits in peer           *)

\* variant: the elements collected for ranking are kept in one place for
\* all invocations, outside the frame
Frame_one_buffer ==
    [pc |-> pc, partition |-> partition, env |-> env, it |-> it, buf |-> peer.buf,
     pending |-> pending, out |-> out, returned |-> returned, exc |-> exc,
     log |-> log]

\* the state of the running invocation: the parameters and locals of call_fn
\* and the iterators and lists its body has made
Frame ==
    [pc |-> pc, partition |-> partition, env |-> env, it |-> it, buf |-> buf,
     pending |-> pending, out |-> out, returned |-> returned, exc |-> exc,
     log |-> log]

\* the running thread is suspended and the other one resumed
Switch ==
    /\ decl = "built"
    /\ peer' = Frame
    /\ pc' = peer.pc
    /\ partition' = peer.partition
    /\ env' = peer.env
    /\ it' = peer.it
    /\ buf' = peer.buf
    /\ pending' = peer.pending
    /\ out' = peer.out
    /\ returned' = peer.returned
    /\ exc' = peer.exc
    /\ log' = peer.log
    /\ UNCHANGED <<declVars, decl, call_fn, assigned>>

\* the caller has its result (or the exception): nothing of the invocation
\* is left, and the thread may invoke the pipeline again
Return ==
    /\ pc \in {"done", "raised"}
    /\ pc' = NoFrame.pc
    /\ partition' = NoFrame.partition
    /\ env' = NoFrame.env
    /\ it' = NoFrame.it
    /\ buf' = NoFrame.buf
    /\ pending' = NoFrame.pending
    /\ out' = NoFrame.out
    /\ returned' = NoFrame.returned
    /\ exc' = NoFrame.exc
    /\ log' = NoFrame.log
    /\ UNCHANGED fixedVars

----------------------------------------------------------------------------
(* Specification of the pipeline: stages with and without the filter's     *)
(* extra argument, every partition up to MaxLen                            *)

Partitions == SeqsUpTo(Elems, MaxLen)

\* comparators: by value, by value descending, by halves (2 and 3 tie), all tie
KeyFns ==
    { [x \in Elems |-> x], [x \in Elems |-> 0 - x],
      [x \in Elems |-> x \div 2], [x \in Elems |-> 0] }

Plain(n) == ControlledMethod(n, << >>, FALSE, FALSE)

Init ==
    /\ action \in {NoStage, Plain(1)}
    /\ filter \in {NoStage, Plain(1), Plain(2)}
    /\ preference \in {NoStage, Plain(2)}
    /\ sort = FALSE
    /\ sort_reverse = FALSE
    /\ sort_key = FALSE
    /\ sort_key_fn = NoStage
    /\ orderable = TRUE
    /\ fAccept \in (IF filter.present THEN SUBSET Elems ELSE {Elems})
    /\ prefKey \in (IF preference.present THEN KeyFns ELSE {[x \in Elems |-> 0]})
    /\ faulty = NoFault
    /\ inspector = NoInspection
    /\ peer = NoFrame
    /\ DeclStart

\* exactly the positional arguments call_fn declares, no keywords
InvokeExact ==
    Invoke(Partitions,
           {P \in SeqsUpTo(ArgVals, 1) : Len(P) = call_fn.args.n_args},
           {{}})

Next ==
    \/ ValidateRanking
    \/ ControllerManager_init
    \/ InvokeExact
    \/ FilterStep
    \/ Rank
    \/ ActionStep
    \/ Exhaust

Spec == Init /\ [][Next]_vars

----------------------------------------------------------------------------
(* Specification of the signature merge: stages of every shape, declared   *)
(* and built, never invoked                                                *)

KwChoices ==
    { << >>, << <<"k", 1>> >>, << <<"k", 2>> >>, << <<"k", 1>>, <<"j", 2>> >> }

Captures == { <<FALSE, FALSE>>, <<TRUE, FALSE>>, <<FALSE, TRUE>> }

\* stage functions with 0 .. reserved + MaxExtra positional parameters
Shapes(reserved) ==
    {NoStage} \cup
    { ControlledMethod(n, kws, c[1], c[2]) :
        n \in 0..(reserved + MaxExtra), kws \in KwChoices, c \in Captures }

NextDecl ==
    \/ ValidateRanking
    \/ ControllerManager_init

InitSig ==
    /\ action \in Shapes(Action_get_min_required_call_args)
    /\ filter \in Shapes(Filter_get_min_required_call_args)
    /\ preference \in Shapes(Preference_get_min_required_call_args)
    /\ sort = FALSE
    /\ sort_reverse = FALSE
    /\ sort_key = FALSE
    /\ sort_key_fn = NoStage
    /\ orderable = TRUE
    /\ fAccept = Elems
    /\ prefKey = [x \in Elems |-> x]
    /\ faulty = NoFault
    /\ inspector = NoInspection
    /\ peer = NoFrame
    /\ DeclStart

SpecSig == InitSig /\ [][NextDecl]_vars

----------------------------------------------------------------------------
(* Specification of the declaration with ranking attributes *)

\* sort_key functions with 0 .. 1 + MaxExtra positional parameters
KeyShapes ==
    { ControlledMethod(n, kws, FALSE, FALSE) :
        n \in 0..(1 + MaxExtra), kws \in {<< >>, << <<"kwarg0", 1>> >>} }

InitDecl ==
    /\ action \in {NoStage, Plain(1), ControlledMethod(1, << >>, TRUE, TRUE),
                   ControlledMethod(1, << <<"k", 1>> >>, FALSE, FALSE)}
    /\ filter \in {NoStage, Plain(1), ControlledMethod(1, << <<"k", 2>> >>, FALSE, FALSE)}
    /\ preference \in {NoStage, Plain(2)}
    /\ sort \in BOOLEAN
    /\ sort_reverse \in BOOLEAN
    /\ sort_key \in BOOLEAN
    /\ sort_key_fn \in (IF sort_key THEN KeyShapes ELSE {NoStage})
    /\ orderable \in BOOLEAN
    /\ fAccept = Elems
    /\ prefKey = [x \in Elems |-> x]
    /\ faulty = NoFault
    /\ inspector = NoInspection
    /\ peer = NoFrame
    /\ DeclStart

SpecDecl == InitDecl /\ [][NextDecl]_vars

----------------------------------------------------------------------------
(* Specification of the ranking attributes in use: classes with sort,      *)
(* sort_reverse and sort_key, declared, built and invoked on every         *)
(* partition up to MaxLen, of ordered and of unordered elements            *)

InitSort ==
    /\ action \in {NoStage, Plain(1)}
    /\ filter \in {NoStage, Plain(1)}
    /\ preference \in {NoStage, Plain(2)}
    /\ sort \in BOOLEAN
    /\ sort_reverse \in BOOLEAN
    /\ sort_key \in BOOLEAN
    /\ sort_key_fn \in (IF sort_key THEN {Plain(0), Plain(1)} ELSE {NoStage})
    /\ orderable \in BOOLEAN
    /\ fAccept \in (IF filter.present
                    THEN {S \in SUBSET Elems : Cardinality(S) >= 2} ELSE {Elems})
    /\ prefKey \in (IF preference.present \/ sort_key
                    THEN {[x \in Elems |-> x], [x \in Elems |-> x \div 2]}
                    ELSE {[x \in Elems |-> 0]})
    /\ faulty = NoFault
    /\ inspector = NoInspection
    /\ peer = NoFrame
    /\ DeclStart

SpecSort == InitSort /\ [][Next]_vars

----------------------------------------------------------------------------
(* Specification of failing stage functions: every combination of stages,  *)
(* each stage function sound or raising on the element 2, invoked on every *)
(* partition up to MaxLen                                                  *)

InitErr ==
    /\ action \in {NoStage, Plain(1)}
    /\ filter \in {NoStage, Plain(1), Plain(2)}
    /\ preference \in {NoStage, Plain(2)}
    /\ sort = FALSE
    /\ sort_reverse = FALSE
    /\ sort_key = FALSE
    /\ sort_key_fn = NoStage
    /\ orderable = TRUE
    /\ fAccept \in (IF filter.present THEN {Elems, {2, 3}} ELSE {Elems})
    /\ prefKey = [x \in Elems |-> x]
    /\ faulty \in [filter : IF filter.present THEN {{}, {2}} ELSE {{}},
                   preference : IF preference.present THEN {{}, {2}} ELSE {{}},
                   action : IF action.present THEN {{}, {2}} ELSE {{}}]
    /\ inspector = NoInspection
    /\ peer = NoFrame
    /\ DeclStart

SpecErr == InitErr /\ [][Next]_vars

----------------------------------------------------------------------------
(* MethodInspector (pycontroller2/internal/method_inspector.py)            *)
(*                                                                         *)
(* A callable is described by its parameter list:                          *)
(*   is_staticmethod  it is a staticmethod object                          *)
(*   params           names of the positional parameters, the receiver     *)
(*                    first when it has one                                *)
(*   n_defaults       how many of the last of them have a default          *)
(*   varargs, varkw   name of the *args / **kwargs parameter, or "None"    *)
(*   kwonly           <<name, has a default, default>> per keyword-only    *)
(*                    parameter                                            *)

\* a Python value that is None, or a tuple / dict with the given items
None == [none |-> TRUE, items |-> << >>]
Some(items) == [none |-> FALSE, items |-> items]

HasDefault(k) == k[2]

\* inspect.getfullargspec(fn): defaults and kwonlydefaults are None when no
\* parameter has a default; kwonlydefaults holds the keyword-only parameters
\* that have one, in declaration order
getfullargspec(fn) ==
    LET with == SelectSeq(fn.kwonly, HasDefault)
    IN  [args           |-> fn.params,
         varargs        |-> fn.varargs,
         varkw          |-> fn.varkw,
         defaults       |-> IF fn.n_defaults = 0 THEN None
                            ELSE Some([i \in 1..fn.n_defaults |-> i]),
         kwonlyargs     |-> [i \in 1..Len(fn.kwonly) |-> fn.kwonly[i][1]],
         kwonlydefaults |-> IF with = << >> THEN None
                            ELSE Some([i \in 1..Len(with) |-> <<with[i][1], with[i][3]>>])]

NotRead == [read |-> FALSE, raised |-> "", value |-> << >>]
Value(v) == [read |-> TRUE, raised |-> "", value |-> v]
Raised(e) == [read |-> TRUE, raised |-> e, value |-> << >>]

\* MethodInspector(fn)
MethodInspector_init ==
    /\ inspector.pc = "callable"
    /\ inspector' = [pc              |-> "made",
                     fn              |-> inspector.fn,
                     is_staticmethod |-> inspector.fn.is_staticmethod,
                     spec            |-> getfullargspec(inspector.fn),
                     full            |-> NotRead,
                     keyword_only    |-> NotRead]
    /\ UNCHANGED <<action, filter, preference, sort, sort_reverse, sort_key,
                   sort_key_fn, orderable, fAccept, prefKey, faulty, peer,
                   decl, call_fn, assigned, runVars>>

\* args[1:]
AfterFirst(args) == IF args = << >> THEN << >> ELSE Tail(args)

\* the property full_call_arg_spec
full_call_arg_spec(m) ==
    IF m.is_staticmethod THEN m.spec
    ELSE [args           |-> AfterFirst(m.spec.args),
          varargs        |-> m.spec.varargs,
          varkw          |-> m.spec.varkw,
          defaults       |-> m.spec.defaults,
          kwonlyargs     |-> m.spec.kwonlyargs,
          kwonlydefaults |-> m.spec.kwonlydefaults]

\* the property kwonlydefaults: the dict, or list() in place of None
kwonlydefaults(m) ==
    IF m.spec.kwonlydefaults.none
    THEN [is_dict |-> FALSE, items |-> << >>]
    ELSE [is_dict |-> TRUE, items |-> m.spec.kwonlydefaults.items]

\* get_keyword_only_args(): list(self.kwonlydefaults.items()); a list has no
\* items()
get_keyword_only_args(m) ==
    IF Len(m.spec.kwonlyargs) = 0 THEN Value(<< >>)
    ELSE IF kwonlydefaults(m).is_dict THEN Value(kwonlydefaults(m).items)
    ELSE Raised("AttributeError")

Read_full_call_arg_spec ==
    /\ inspector.pc = "made"
    /\ ~inspector.full.read
    /\ inspector' = [inspector EXCEPT !.full = Value(full_call_arg_spec(inspector))]
    /\ UNCHANGED <<action, filter, preference, sort, sort_reverse, sort_key,
                   sort_key_fn, orderable, fAccept, prefKey, faulty, peer,
                   decl, call_fn, assigned, runVars>>

Call_get_keyword_only_args ==
    /\ inspector.pc = "made"
    /\ ~inspector.keyword_only.read
    /\ inspector' = [inspector EXCEPT !.keyword_only = get_keyword_only_args(inspector)]
    /\ UNCHANGED <<action, filter, preference, sort, sort_reverse, sort_key,
                   sort_key_fn, orderable, fAccept, prefKey, faulty, peer,
                   decl, call_fn, assigned, runVars>>

----------------------------------------------------------------------------
(* Specification of the inspector: instance methods and staticmethods with *)
(* up to two positional parameters after the receiver, with and without    *)
(* defaults, captures and keyword-only parameters                          *)

KwOnly(name, default) == { <<name, FALSE, 0>>, <<name, TRUE, default>> }

KwOnlyLists ==
    {<< >>} \cup { <<k>> : k \in KwOnly("k", 5) }
            \cup { <<k, j>> : k \in KwOnly("k", 5), j \in KwOnly("j", 6) }

ParamLists(static) ==
    IF static THEN { << >>, <<"a">>, <<"a", "b">> }
    ELSE { << >>, <<"self">>, <<"self", "a">>, <<"self", "a", "b">> }

Callables ==
    { [is_staticmethod |-> st, params |-> ps, n_defaults |-> nd,
       varargs |-> va, varkw |-> vk, kwonly |-> ko] :
        st \in BOOLEAN, ps \in ParamLists(TRUE) \cup ParamLists(FALSE),
        nd \in 0..1, va \in {"None", "args"}, vk \in {"None", "kwargs"},
        ko \in KwOnlyLists }

InitInspect ==
    /\ action = NoStage
    /\ filter = NoStage
    /\ preference = NoStage
    /\ sort = FALSE
    /\ sort_reverse = FALSE
    /\ sort_key = FALSE
    /\ sort_key_fn = NoStage
    /\ orderable = TRUE
    /\ fAccept = Elems
    /\ prefKey = [x \in Elems |-> x]
    /\ faulty = NoFault
    /\ inspector \in { [pc |-> "callable", fn |-> c] :
                          c \in { d \in Callables :
                                    /\ d.params \in ParamLists(d.is_staticmethod)
                                    /\ d.n_defaults <= Len(d.params) } }
    /\ peer = NoFrame
    /\ DeclStart

NextInspect ==
    \/ MethodInspector_init
    \/ Read_full_call_arg_spec
    \/ Call_get_keyword_only_args

SpecInspect == InitInspect /\ [][NextInspect]_vars

----------------------------------------------------------------------------
(* Specification of concurrent and repeated invocations: two threads       *)
(* invoke the pipeline of one class, on the same or on different           *)
(* partitions and arguments, their steps interleaved in every way          *)

InitConc ==
    /\ action \in {NoStage, Plain(1)}
    /\ filter \in {NoStage, Plain(2)}
    /\ preference \in {NoStage, Plain(2)}
    /\ sort = FALSE
    /\ sort_reverse = FALSE
    /\ sort_key = FALSE
    /\ sort_key_fn = NoStage
    /\ orderable = TRUE
    /\ fAccept = {2, 3}
    /\ prefKey = [x \in Elems |-> 0 - x]
    /\ faulty = NoFault
    /\ inspector = NoInspection
    /\ peer = NoFrame
    /\ DeclStart

InvokeConc ==
    Invoke({<<1, 2>>, <<2, 1, 3>>},
           {P \in SeqsUpTo(ArgVals, 1) : Len(P) = call_fn.args.n_args},
           {{}})

NextConc ==
    \/ ValidateRanking
    \/ ControllerManager_init
    \/ InvokeConc
    \/ FilterStep
    \/ Rank
    \/ ActionStep
    \/ Exhaust
    \/ Switch
    \/ Return

SpecConc == InitConc /\ [][NextConc]_vars

----------------------------------------------------------------------------
(* Specification of argument forwarding: stages with extra positional      *)
(* parameters, keywords and captures, invoked on one two-element partition *)
(* with 0 .. MaxExtra + 3 positional arguments, with and without keywords  *)

\* what a stage declares beyond its positional parameters:
\* <<it has the keyword kw, *args, **kwargs>>
Flavours ==
    { <<FALSE, FALSE, FALSE>>, <<TRUE, FALSE, FALSE>>, <<FALSE, TRUE, FALSE>>,
      <<FALSE, FALSE, TRUE>>, <<TRUE, TRUE, TRUE>> }

Forwarded(reserved, kw, default) ==
    {NoStage} \cup
    { ControlledMethod(n, IF f[1] THEN << <<kw, default>> >> ELSE << >>, f[2], f[3]) :
        n \in reserved..(reserved + MaxExtra), f \in Flavours }

PosValues == [i \in 1..(MaxExtra + 3) |-> 10 + i]

InitArgs ==
    /\ action \in Forwarded(Action_get_min_required_call_args, "ka", 1)
    /\ filter \in Forwarded(Filter_get_min_required_call_args, "kf", 2)
    /\ preference \in Forwarded(Preference_get_min_required_call_args, "kp", 3)
    /\ sort = FALSE
    /\ sort_reverse = FALSE
    /\ sort_key = FALSE
    /\ sort_key_fn = NoStage
    /\ orderable = TRUE
    /\ fAccept = 0..(Len(PosValues) + 20)
    /\ prefKey = [x \in Elems |-> x]
    /\ faulty = NoFault
    /\ inspector = NoInspection
    /\ peer = NoFrame
    /\ DeclStart

InvokeArgs ==
    Invoke({<<2, 1>>},
           {SubSeq(PosValues, 1, n) : n \in 0..Len(PosValues)},
           {{}, {<<"ka", 21>>, <<"zz", 22>>}})

NextArgs ==
    \/ ValidateRanking
    \/ ControllerManager_init
    \/ InvokeArgs
    \/ FilterStep
    \/ Rank
    \/ ActionStep
    \/ Exhaust

SpecArgs == InitArgs /\ [][NextArgs]_vars

----------------------------------------------------------------------------
(* Properties *)

StageRank(fn) ==
    CASE fn = "filter" -> 1 [] fn = "preference" -> 2 [] fn = "action" -> 3

CallsOf(fn) == {i \in 1..Len(log) : log[i].fn = fn}

IsActionCall(c) == c.fn = "action"

\* the candidates handed to the action stage so far
ActionCandidates ==
    LET calls == SelectSeq(log, IsActionCall)
    IN  [i \in 1..Len(calls) |-> calls[i].pos[1]]

\* the predicate p the filter stage applies in this invocation
KeepP(x) ==
    (x + (IF filter.n_pos > 1 /\ Len(env.arg) > 0 THEN env.arg[1] ELSE 0)) \in fAccept

\* the sub-sequence of the first n elements of the partition for which p holds
Selected(n) == SelectSeq(SubSeq(partition, 1, n), KeepP)

Filtered == IF has_filter THEN Selected(Len(partition)) ELSE partition

Mapped(s) == [i \in 1..Len(s) |-> ActionFn([fn |-> "action", pos |-> <<s[i]>>, kw |-> {}])]

\* R is S reordered so that a precedes b whenever preference(a, b) < 0 and
\* elements that compare equal keep their order in S
IsStableRanking(R, S) ==
    /\ Len(R) = Len(S)
    /\ \E pi \in [1..Len(S) -> 1..Len(S)] :
        /\ \A i, j \in 1..Len(S) : pi[i] = pi[j] => i = j
        /\ \A k \in 1..Len(S) : R[k] = S[pi[k]]
        /\ \A i, j \in 1..Len(S) :
            i < j => /\ ~(PreferenceFn(R[j], R[i]) < 0)
                     /\ PreferenceFn(R[i], R[j]) = 0 => pi[i] < pi[j]

\* C1 (as claimed): in every invocation the stages run as whole phases in the
\* order filter, rank, action: no call of a later stage precedes a call of an
\* earlier stage, and the filter has been applied to the whole partition
\* before the first comparison or action call.
C1_WholeStages ==
    /\ \A i, j \in 1..Len(log) :
        i < j => StageRank(log[i].fn) <= StageRank(log[j].fn)
    /\ has_filter /\ (CallsOf("preference") \cup CallsOf("action")) # {}
         => Cardinality(CallsOf("filter")) = Len(partition)

\* C1 (amended): every comparison precedes every action call and no filter
\* call follows a comparison; every element compared or mapped has passed
\* its own filter call before; and when a preference stage is present the
\* stages run as whole phases: the filter has been applied to the whole
\* partition before the first comparison, and ranking has finished before
\* the first action call.
C1_StageOrder ==
    /\ \A i, j \in 1..Len(log) :
        i < j => /\ ~(log[i].fn = "preference" /\ log[j].fn = "filter")
                 /\ ~(log[i].fn = "action" /\ log[j].fn = "preference")
    /\ has_filter =>
         \A j \in CallsOf("preference") \cup CallsOf("action") :
            \A k \in 1..(IF log[j].fn = "action" THEN 1 ELSE 2) :
                \E i \in CallsOf("filter") :
                    i < j /\ log[i].pos[1] = log[j].pos[k] /\ FilterFn(log[i])
    /\ has_preference =>
         /\ \A i, j \in 1..Len(log) :
              i < j => StageRank(log[i].fn) <= StageRank(log[j].fn)
         /\ has_filter /\ (CallsOf("preference") \cup CallsOf("action")) # {}
              => Cardinality(CallsOf("filter")) = Len(partition)
         /\ CallsOf("action") # {} => pc \in {"map", "done", "raised"}

\* an invocation with all three stages has filtered, compared and mapped
C1_Witness ==
    /\ has_filter /\ has_preference /\ has_action
    /\ pc = "done"
    /\ Len(out) >= 2
    /\ Len(out) < Len(partition)
    /\ CallsOf("preference") # {}

\* C2: the elements that leave the filter stage are exactly the sub-sequence
\* of the elements tested so far for which the predicate holds, in their input
\* order, and when the stage has finished every element has been tested; on
\* the direct path and on the generated-adapter path alike.
C2_FilterExact ==
    has_filter =>
        LET start == BodyStart(call_fn)
        IN  /\ start = "drain" /\ pc = "drain" => buf = Selected(it)
            /\ start = "drain" /\ pc = "rank" => buf = Selected(Len(partition))
            /\ start = "lazy" /\ pc \in {"lazy", "done"} => out = Selected(it)
            /\ start = "comp" /\ pc \in {"comp", "done"}
                 => ActionCandidates \o pending = Selected(it)
            /\ start \in {"lazy", "comp"} /\ pc = "done" => it = Len(partition)

\* the adapter path has filtered a whole partition and dropped part of it
C2_Witness ==
    /\ has_filter /\ ~call_fn.filter.direct
    /\ ~has_preference /\ ~has_action
    /\ pc = "done"
    /\ Len(partition) = 3
    /\ Len(out) = 2
    /\ out = <<partition[1], partition[3]>>

\* the elements the ranking stage returned
Ranked == IF has_action THEN buf ELSE out

\* C3: the ranking stage returns all filtered survivors, reordered so that a
\* precedes b whenever preference(a, b) < 0, elements comparing equal keeping
\* their filtered order; nothing is cut off, also when the filter removed
\* elements.
C3_StableFullSort ==
    has_preference /\ pc \in {"map", "done"} => IsStableRanking(Ranked, Filtered)

\* the filter removed an element and the ranking reordered the survivors
C3_Witness ==
    /\ has_filter /\ has_preference
    /\ pc \in {"map", "done"}
    /\ Len(Filtered) < Len(partition)
    /\ Len(Ranked) = 2
    /\ Ranked # Filtered

\* C4: an absent stage is the identity.  A class with no stage is built
\* without error and returns the partition unchanged; without preference and
\* action the result is the filtered elements in input order (all elements
\* when there is no filter); without preference the action maps them in that
\* order; without action the ranked elements are returned as they are.
C4_AbsentIdentity ==
    /\ ~has_filter /\ ~has_preference /\ ~has_action
         => /\ decl \in {"declaring", "validated", "built"}
            /\ pc = "done" => out = partition
    /\ pc = "done" =>
         /\ ~has_preference /\ ~has_action => out = Filtered
         /\ ~has_preference /\ has_action => out = Mapped(Filtered)
         /\ has_preference /\ ~has_action => IsStableRanking(out, Filtered)
         /\ has_preference /\ has_action /\ ~has_filter
              => IsStableRanking(buf, partition) /\ out = Mapped(buf)

\* the pipeline without stages has returned an unsorted partition
C4_Witness ==
    /\ ~has_filter /\ ~has_preference /\ ~has_action
    /\ pc = "done"
    /\ returned
    /\ Len(partition) >= 2
    /\ partition[1] > partition[2]
    /\ out = partition


StageOf(fn) ==
    CASE fn = "filter" -> filter [] fn = "preference" -> preference [] fn = "action" -> action

Reserved(fn) ==
    CASE fn = "filter" -> Filter_get_min_required_call_args
      [] fn = "preference" -> Preference_get_min_required_call_args
      [] fn = "action" -> Action_get_min_required_call_args

\* extraParamCount() of a stage
ExtraParamCount(fn) == Max(StageOf(fn).n_pos - Reserved(fn), 0)

PresentStages == {fn \in {"action", "filter", "preference"} : StageOf(fn).present}

\* C5 (as claimed): every stage call passes the reserved leading
\* argument(s), then exactly the first extraParamCount() extra positional
\* arguments of the pipeline, and nothing more (but the payload of *args for
\* a stage that declares it).
C5_ExactExtras ==
    \A i \in 1..Len(log) :
        LET c == log[i]
            r == Reserved(c.fn)
            n == ExtraParamCount(c.fn)
        IN  /\ Len(c.pos) >= r + n
            /\ SubSeq(c.pos, r + 1, r + n) = SubSeq(env.arg, 1, n)
            /\ Len(c.pos) > r + n => StageOf(c.fn).has_arg_unpack

\* C6: call_fn declares, after self and partition, exactly as many arg_i as
\* the largest need of a present stage, a need being the stage's positional
\* parameters less its reserved ones, and none when no need is positive; so
\* no present stage needs more extras than call_fn takes, and no generated
\* stage call names an arg_i that call_fn lacks.
C6_ExtraSlots ==
    decl = "built" =>
        LET m == call_fn.args.n_args
            needs == {StageOf(fn).n_pos - Reserved(fn) : fn \in PresentStages}
        IN  /\ m >= 0
            /\ \A d \in needs : m >= d
            /\ m = 0 \/ m \in needs
            /\ \A fn \in PresentStages : m >= ExtraParamCount(fn)
            /\ Len(call_fn.action.args) <= m
            /\ Len(call_fn.filter.args) <= m

\* three stages, the filter needing the most, the action fewer than its
\* reserved parameter
C6_Witness ==
    /\ decl = "built"
    /\ PresentStages = {"action", "filter", "preference"}
    /\ action.n_pos = 0
    /\ preference.n_pos = 2
    /\ filter.n_pos = 2
    /\ call_fn.args.n_args = 1

RECURSIVE FirstWins(_)
\* the keyword parameters of s, each name once, with its first default
FirstWins(s) ==
    IF s = << >> THEN << >>
    ELSE LET front == FirstWins(SubSeq(s, 1, Len(s) - 1))
             last == s[Len(s)]
         IN  IF \E i \in 1..Len(front) : front[i][1] = last[1]
             THEN front ELSE Append(front, last)

\* C7 (as claimed): the keyword parameters of call_fn are those of action,
\* filter and preference in that order, each name once with its first
\* default, and a name declared by two stages does not fail the declaration.
C7_KeywordUnion ==
    /\ decl # "SyntaxError"
    /\ decl = "built" =>
         call_fn.args.keywords = FirstWins(signature_keywords(action, filter, preference))

\* c.pos ends with the captured positional arguments
EndsWithArgs(c) ==
    /\ Len(c.pos) >= Len(env.args)
    /\ SubSeq(c.pos, Len(c.pos) - Len(env.args) + 1, Len(c.pos)) = env.args

\* C8 (as claimed): call_fn takes *args (**kwargs) exactly if a present stage
\* does, and every call of a stage that declares the capture receives the
\* captured arguments as they are, every other call none of them.
C8_CaptureForwarding ==
    /\ decl = "built" =>
         /\ call_fn.args.vararg <=> \E fn \in PresentStages : StageOf(fn).has_arg_unpack
         /\ call_fn.args.kwarg <=> \E fn \in PresentStages : StageOf(fn).has_kwarg_unpack
    /\ \A i \in 1..Len(log) :
         LET c == log[i]
             st == StageOf(c.fn)
         IN  /\ st.has_arg_unpack => EndsWithArgs(c)
             /\ ~st.has_arg_unpack => Len(c.pos) <= Reserved(c.fn) + ExtraParamCount(c.fn)
             /\ st.has_kwarg_unpack => env.kwargs \subseteq c.kw
             /\ ~st.has_kwarg_unpack => c.kw \cap env.kwargs = {}

\* C9 (as claimed): every comparison calls the preference with the compared
\* pair, then the preference's own extra positional parameters, and its own
\* keyword parameters, taken from the arguments of call_fn.
C9_PreferenceExtras ==
    \A i \in CallsOf("preference") :
        LET c == log[i]
            n == ExtraParamCount("preference")
        IN  /\ Len(c.pos) >= 2 + n
            /\ SubSeq(c.pos, 3, 2 + n) = SubSeq(env.arg, 1, n)
            /\ \A k \in 1..Len(preference.keyword_arguments) :
                LET name == preference.keyword_arguments[k][1]
                IN  <<name, Local(name, env)>> \in c.kw

\* C10: a class that sets sort together with a preference comparator or with
\* sort_key never gets past validation: the declaration ends in the
\* configuration error, whatever sort_reverse is, call_fn is never generated
\* or assigned, and no invocation starts.
C10_SortExclusive ==
    sort /\ (has_preference \/ sort_key) =>
        /\ decl \in {"declaring", "ValueError"}
        /\ call_fn = NoFn
        /\ ~assigned
        /\ pc = "idle"

\* sort with sort_key, and sort_reverse set, has been rejected
C10_Witness ==
    /\ sort /\ sort_key /\ sort_reverse /\ ~has_preference
    /\ decl = "ValueError"
    /\ ~assigned

\* C11: a class that sets sort_reverse with none of sort, sort_key and a
\* preference comparator, with or without an action, ends its declaration in
\* the configuration error and gets no __call__; a class that sets
\* sort_reverse with one of them (and breaks no other rule) never ends in a
\* configuration error.
C11_ReverseNeedsRanking ==
    sort_reverse =>
        /\ ~(sort \/ sort_key \/ has_preference)
             => /\ decl \in {"declaring", "ValueError"}
                /\ call_fn = NoFn
                /\ ~assigned
        /\ ((sort \/ sort_key \/ has_preference)
              /\ ~(sort /\ (has_preference \/ sort_key))
              /\ ~MissingCandidate)
             => decl \notin {"ValueError", "AttributeError"}

\* sort_reverse with a preference comparator and an action has been built
C11_Witness ==
    /\ sort_reverse /\ has_preference /\ has_action
    /\ ~sort /\ ~sort_key
    /\ decl = "built"
    /\ assigned

Reverse(s) == [i \in 1..Len(s) |-> s[Len(s) + 1 - i]]

RECURSIVE AscendingFrom(_, _)
\* the elements of s that are at least v, the smaller ones first
AscendingFrom(s, v) ==
    IF \A i \in 1..Len(s) : s[i] < v THEN << >>
    ELSE SelectSeq(s, LAMBDA x : x = v) \o AscendingFrom(s, v + 1)

\* s in non-decreasing order
Ascending(s) == AscendingFrom(s, 0)

\* C12: what the pipeline declared with sort alone returns is the filtered
\* elements in non-decreasing order (mapped by the action, if any), and
\* what the pipeline declared with sort and sort_reverse returns for the same
\* input is the exact reverse of that sequence, and is non-increasing.
C12_ReverseOfSort ==
    sort /\ pc = "done" =>
        LET ranked == Ascending(Filtered)
            plain == IF has_action THEN Mapped(ranked) ELSE ranked
        IN  /\ ~sort_reverse => out = plain
            /\ sort_reverse =>
                 /\ out = Reverse(plain)
                 /\ \A i, j \in 1..Len(out) : i < j => out[i] >= out[j]

\* sort with sort_reverse has returned the survivors of the filter, which
\* came in ascending order, in descending order
C12_Witness ==
    /\ sort /\ sort_reverse /\ has_filter /\ has_action
    /\ pc = "done"
    /\ Len(out) = 2
    /\ Len(partition) = 3
    /\ Filtered[1] < Filtered[2]
    /\ out[1] > out[2]

\* C14: a class with sort is declared and built whatever its elements will
\* be; invoked on elements without an order, the invocation raises
\* TypeError at its first comparison: no second comparison and no action
\* call is made, nothing is returned, and no invocation that has two
\* elements to rank returns.
C14_UnorderableAtInvocation ==
    sort /\ ~orderable /\ ~has_preference /\ ~sort_key =>
        /\ decl \in {"declaring", "validated", "built"}
        /\ CallsOf("preference") # {} =>
             /\ pc = "raised"
             /\ exc = "TypeError"
             /\ ~returned
             /\ out = << >>
             /\ Cardinality(CallsOf("preference")) = 1
             /\ CallsOf("action") = {}
        /\ pc # "idle" /\ Len(Filtered) >= 2 => pc # "done" /\ ~returned

\* the filter has run, and the first comparison has raised
C14_Witness ==
    /\ sort /\ ~orderable /\ has_filter /\ has_action
    /\ decl = "built"
    /\ pc = "raised"
    /\ exc = "TypeError"
    /\ Cardinality(CallsOf("filter")) = 3
    /\ Cardinality(CallsOf("preference")) = 1

C16_NoPartialConstruction ==
    /\ decl \in {"ValueError", "AttributeError", "SyntaxError"} =>
         /\ ~assigned
         /\ call_fn = NoFn
         /\ pc = "idle"
    /\ assigned =>
         /\ decl = "built"
         /\ call_fn.present
         /\ Compiles(call_fn.args)
    /\ decl \in {"declaring", "validated"} => ~assigned

\* generating call_fn failed on a keyword declared by two stages, after
\* validation had passed, and nothing was assigned
C16_Witness ==
    /\ decl = "SyntaxError"
    /\ has_action /\ has_filter
    /\ ~RankingConflict /\ ~MissingCandidate
    /\ ~assigned

\* C15 (as claimed): every stage-function call of an invocation is made
\* before the invocation returns, so nothing of it runs once it has returned;
\* and when a stage function raises, the invocation raises that exception and
\* has returned nothing to its caller.
C15_Materialized ==
    /\ returned => pc = "done"
    /\ pc = "raised" => ~returned
    /\ Len(log) > 0 /\ Raises(log[Len(log)]) =>
         /\ pc = "raised"
         /\ exc = "StageError"
         /\ ~returned

\* the keyword-only parameters of fn as <<name, default>> pairs
KeywordOnlyPairs(fn) == [i \in 1..Len(fn.kwonly) |-> <<fn.kwonly[i][1], fn.kwonly[i][3]>>]

\* C18 (as claimed): full_call_arg_spec is the callable's argument
\* specification with exactly the first positional parameter removed for an
\* instance method and nothing removed for a staticmethod, every other field
\* as inspect reports it; and get_keyword_only_args returns, without error,
\* one <<name, default>> pair per keyword-only parameter of the callable, in
\* declaration order, and the empty list when there is none.
C18_InspectorShape ==
    inspector.pc = "made" =>
        LET fn == inspector.fn
            spec == getfullargspec(fn)
            full == inspector.full.value
            kws == inspector.keyword_only
        IN  /\ inspector.full.read =>
                 /\ full.args = IF fn.is_staticmethod THEN fn.params
                                 ELSE SubSeq(fn.params, 2, Len(fn.params))
                 /\ full.varargs = fn.varargs
                 /\ full.varkw = fn.varkw
                 /\ full.defaults = spec.defaults
                 /\ full.kwonlyargs = spec.kwonlyargs
                 /\ full.kwonlydefaults = spec.kwonlydefaults
            /\ kws.read =>
                 /\ kws.raised = ""
                 /\ Len(kws.value) = Len(fn.kwonly)
                 /\ \A i \in 1..Len(kws.value) :
                      /\ kws.value[i][1] = fn.kwonly[i][1]
                      /\ HasDefault(fn.kwonly[i]) => kws.value[i] = KeywordOnlyPairs(fn)[i]

\* the filter's predicate in the invocation f
KeepIn(f, x) ==
    (x + (IF filter.n_pos > 1 /\ Len(f.env.arg) > 0 THEN f.env.arg[1] ELSE 0)) \in fAccept

\* what the filter stage leaves of the partition of f
FilteredOf(f) ==
    IF has_filter THEN SelectSeq(f.partition, LAMBDA x : KeepIn(f, x)) ELSE f.partition

\* f has ended with the result that its partition and arguments determine:
\* the survivors of the filter, in the stable ranking of the preference,
\* mapped by the action
SoloResult(f) ==
    /\ f.exc = ""
    /\ f.returned
    /\ IF has_preference
       THEN IF has_action
            THEN IsStableRanking(f.buf, FilteredOf(f)) /\ f.out = Mapped(f.buf)
            ELSE IsStableRanking(f.out, FilteredOf(f))
       ELSE f.out = (IF has_action THEN Mapped(FilteredOf(f)) ELSE FilteredOf(f))

\* C17: whatever the interleaving of two threads' invocations of one
\* pipeline, and whatever invocations went before on either thread, an
\* invocation never raises and ends with exactly the result that its own
\* partition and arguments determine, the one it returns when run alone; so
\* invocations with equal inputs return equal results.
C17_Stateless ==
    \A f \in {Frame, peer} :
        /\ f.pc # "raised"
        /\ f.pc = "done" => SoloResult(f)
        /\ f.pc = "idle" => f = NoFrame

\* both threads are inside an invocation that has made calls, on different
\* partitions, and the running one has finished
C17_Witness ==
    /\ has_filter /\ has_preference /\ has_action
    /\ pc = "done"
    /\ peer.pc \in {"drain", "rank", "map"}
    /\ peer.log # << >>
    /\ peer.partition # partition
    /\ Len(out) = 2

====
